---- MODULE Spec2Model ----
(***************************************************************************)
(* The Contact section of the portfolio (src/sections/Contact.tsx): a form *)
(* with three fields validated by contactFormSchema, an asynchronous       *)
(* onSubmit that posts the draft to the form-relay API, and a status text  *)
(* (the `result` state) that an effect clears 3 seconds after it changed.  *)
(*                                                                         *)
(* Text values are sequences of one-character strings, so that lengths and *)
(* the email shape are computed and not assumed.  Time is counted in       *)
(* seconds: one Tick is one second of the 3000 ms of the timer.            *)
(***************************************************************************)
EXTENDS Integers, Sequences, FiniteSets

VARIABLES
    mounted,    \* the component instance is mounted
    result,     \* useState "result": the status text
    form,       \* the form controller's values [name, email, message]
    timers,     \* pending setTimeout timers, each [for, left]
    inflight,   \* indices (into sent) of the fetches not yet settled
    sent,       \* every request body handed to fetch, in order
    consoleErr, \* number of console.error calls
    age,        \* history: seconds the displayed status has been showing
    ev          \* history: the event that produced the current state

vars == <<mounted, result, form, timers, inflight, sent, consoleErr, age, ev>>

----------------------------------------------------------------------------
\* Bounds of the model

\* at most this many requests are issued in one behaviour
MaxSubmits == 2

----------------------------------------------------------------------------
\* Program constants

\* setTimeout(..., 3000): three seconds
TimerDelay == 3

\* z.string().min(3, ...)
NameMin == 3

\* z.string().min(10, ...)
MessageMin == 10

Idle == ""
Sending == "Sending ..."
Success == "Message sent successfully."
Failure == "Failed to send message"

\* process.env.NEXT_PUBLIC_WEB3FORMS_ACCESS_KEY
AccessKey == "NEXT_PUBLIC_WEB3FORMS_ACCESS_KEY"

\* defaultValues of useForm
DefaultValues == [name |-> <<>>, email |-> <<>>, message |-> <<>>]

----------------------------------------------------------------------------
\* Texts the user can type (the empty text is the fields' default)

Names ==
    { <<"A", "l">>,
      <<"A", "l", "i">> }

Emails ==
    { <<"b", "a", "d", "-", "e", "m", "a", "i", "l">>,
      <<"a", "@", "b", ".", "c">>,
      <<"a", "@", "b", ".", "c", "o">> }

Messages ==
    { <<"H", "e", "l", "l", "o", " ", "t", "h", "e">>,
      <<"H", "e", "l", "l", "o", " ", "t", "h", "e", "r">>,
      <<"H", "e", "l", "l", "o", " ", "t", "h", "e", "r", "e">> }

FieldValues == [name |-> Names, email |-> Emails, message |-> Messages]

FieldNames == {"name", "email", "message"}

----------------------------------------------------------------------------
\* contactFormSchema

Lower ==
    {"a", "b", "c", "d", "e", "f", "g", "h", "i", "j", "k", "l", "m",
     "n", "o", "p", "q", "r", "s", "t", "u", "v", "w", "x", "y", "z"}

Upper ==
    {"A", "B", "C", "D", "E", "F", "G", "H", "I", "J", "K", "L", "M",
     "N", "O", "P", "Q", "R", "S", "T", "U", "V", "W", "X", "Y", "Z"}

Digit == {"0", "1", "2", "3", "4", "5", "6", "7", "8", "9"}

Letter == Lower \cup Upper

AlNum == Letter \cup Digit

\* the segments of s between the occurrences of sep
RECURSIVE Split(_, _)
Split(s, sep) ==
    IF \A i \in 1..Len(s) : s[i] # sep
    THEN <<s>>
    ELSE LET p == CHOOSE i \in 1..Len(s) :
                      s[i] = sep /\ \A j \in 1..(i - 1) : s[j] # sep
         IN  <<SubSeq(s, 1, p - 1)>> \o Split(SubSeq(s, p + 1, Len(s)), sep)

\* local part: [A-Z0-9_'+\-\.]*[A-Z0-9_+-], case-insensitive
LocalOK(l) ==
    /\ Len(l) >= 1
    /\ \A i \in 1..Len(l) : l[i] \in AlNum \cup {"_", "'", "+", "-", "."}
    /\ l[Len(l)] \in AlNum \cup {"_", "+", "-"}

\* a domain label: [A-Z0-9][A-Z0-9\-]*
LabelOK(l) ==
    /\ Len(l) >= 1
    /\ l[1] \in AlNum
    /\ \A i \in 1..Len(l) : l[i] \in AlNum \cup {"-"}

\* domain: ([A-Z0-9][A-Z0-9\-]*\.)+[A-Z]{2,}
DomainOK(d) ==
    LET parts == Split(d, ".")
        n == Len(parts)
    IN  /\ n >= 2
        /\ \A k \in 1..(n - 1) : LabelOK(parts[k])
        /\ Len(parts[n]) >= 2
        /\ \A i \in 1..Len(parts[n]) : parts[n][i] \in Letter

\* z.string().email(): not starting with a dot, no two dots in a row,
\* local part, one @, domain
IsEmail(s) ==
    LET parts == Split(s, "@")
    IN  /\ Len(parts) = 2
        /\ Len(s) >= 1
        /\ s[1] # "."
        /\ \A i \in 1..(Len(s) - 1) : ~(s[i] = "." /\ s[i + 1] = ".")
        /\ LocalOK(parts[1])
        /\ DomainOK(parts[2])

\* the minimum length checked one too low
NameOKShort(v) == Len(v) >= NameMin - 1

NameOK(v) == Len(v) >= NameMin

MessageOK(v) == Len(v) >= MessageMin

\* the schema accepts the draft: the resolver reports no field error
SchemaAccepts(d) == NameOK(d.name) /\ IsEmail(d.email) /\ MessageOK(d.message)

----------------------------------------------------------------------------
\* The status and its effect

\* a cleanup that clears nothing (the effect returning no cleanup)
CleanupNone(ts, old) == ts

\* the effect's cleanup: clearTimeout of the timer the effect created for
\* the status old
Cleanup(ts, old) == {t \in ts : t.for # old}

\* the effect's body for the status v: a timer unless the status is empty
Effect(ts, v) ==
    IF v # Idle THEN ts \cup {[for |-> v, left |-> TimerDelay]} ELSE ts

\* a status that, once it shows an outcome, keeps it until it is cleared
SetResultFirstWins(ts, v) ==
    IF mounted /\ v # result /\ ~(result \in {Success, Failure} /\ v # Idle)
    THEN [result |-> v, timers |-> Effect(Cleanup(ts, result), v), age |-> 0]
    ELSE [result |-> result, timers |-> ts, age |-> age]

\* setResult(v) followed by the re-render: a state update of an unmounted
\* component is dropped; an update to the value the state already has
\* leaves the dependency [result] unchanged, so the effect does not run
\* again; otherwise the previous effect is cleaned up and the effect runs
SetResult(ts, v) ==
    IF mounted /\ v # result
    THEN [result |-> v, timers |-> Effect(Cleanup(ts, result), v), age |-> 0]
    ELSE [result |-> result, timers |-> ts, age |-> age]

Event(type, arg, id, prev) == [type |-> type, arg |-> arg, id |-> id, prev |-> prev]

----------------------------------------------------------------------------
Init ==
    /\ mounted = TRUE
    /\ result = Idle
    /\ form = DefaultValues
    /\ timers = {}
    /\ inflight = {}
    /\ sent = <<>>
    /\ consoleErr = 0
    /\ age = 0
    /\ ev = Event("init", "", 0, DefaultValues)

\* the user types into one of the three fields
Edit(f, v) ==
    /\ mounted
    /\ form[f] # v
    /\ form' = [form EXCEPT ![f] = v]
    /\ ev' = Event("edit", "", 0, DefaultValues)
    /\ UNCHANGED <<mounted, result, timers, inflight, sent, consoleErr, age>>

\* a body built without the access credential
BodyNoKey(data) ==
    [access_key |-> "", name |-> data.name,
     email |-> data.email, message |-> data.message]

\* the request body built by onSubmit
Body(data) ==
    [access_key |-> AccessKey, name |-> data.name,
     email |-> data.email, message |-> data.message]

\* the fetch started without the status having been set
BeforeFetchSkipped(ts) == [result |-> result, timers |-> ts, age |-> age]

\* what onSubmit does before it starts the fetch: setResult("Sending ...")
BeforeFetch(ts) == SetResult(ts, Sending)

\* a submit button disabled while a request is in flight
CanSubmitIdleOnly == mounted /\ inflight = {}

\* the form may be submitted (nothing in the component disables the button)
CanSubmit == mounted

\* form.handleSubmit(onSubmit): the draft goes through the resolver; when
\* it is accepted onSubmit runs up to its await: setResult("Sending ...")
\* and the fetch is started.  The resolver is awaited in microtasks, which
\* no other event interleaves.  A rejected draft only produces the field
\* errors shown under the inputs, display state this model does not carry.
HandleSubmit ==
    /\ CanSubmit
    /\ SchemaAccepts(form) => Len(sent) < MaxSubmits
    /\ IF SchemaAccepts(form)
       THEN LET s == BeforeFetch(timers)
            IN  /\ result' = s.result
                /\ timers' = s.timers
                /\ age' = s.age
                /\ sent' = Append(sent, Body(form))
                /\ inflight' = inflight \cup {Len(sent) + 1}
       ELSE UNCHANGED <<result, timers, age, sent, inflight>>
    /\ ev' = Event("submit", "", 0, DefaultValues)
    /\ UNCHANGED <<mounted, form, consoleErr>>

\* the outcomes of a fetch: a response with an ok status, a response with
\* another status, a rejected promise
Outcomes == {"ok", "nonok", "neterr"}

\* the check of response.ok left out: only a rejected fetch is a failure
ResponseOkAnyResponse(o) == o # "neterr"

\* onSubmit reaches the end of its try block: the fetch resolved and
\* response.ok holds; otherwise control is in the catch block
ResponseOk(o) == o = "ok"

\* the status onSubmit sets for an outcome
StatusFor(o) == IF ResponseOk(o) THEN Success ELSE Failure

\* a reset that keeps the values
ResetKeep(f) == f

\* form.reset(): the form controller's values go back to the defaults
Reset(f) == DefaultValues

\* the fetch of request i settles and onSubmit resumes after its await
Respond(i, o) ==
    /\ i \in inflight
    /\ inflight' = inflight \ {i}
    /\ LET s == SetResult(timers, StatusFor(o))
       IN  /\ result' = s.result
           /\ timers' = s.timers
           /\ age' = s.age
    /\ IF ResponseOk(o)
       THEN form' = Reset(form) /\ UNCHANGED consoleErr
       ELSE consoleErr' = consoleErr + 1 /\ UNCHANGED form
    /\ ev' = Event("respond", o, i, form)
    /\ UNCHANGED <<mounted, sent>>

\* one second passes; a timer that is due fires before more time passes
Tick ==
    /\ \A t \in timers : t.left > 0
    /\ timers' = {[t EXCEPT !.left = t.left - 1] : t \in timers}
    /\ age' = IF mounted /\ result # Idle /\ age < TimerDelay THEN age + 1 ELSE age
    /\ ev' = Event("tick", "", 0, DefaultValues)
    /\ UNCHANGED <<mounted, result, form, inflight, sent, consoleErr>>

\* a due timer runs its callback: setResult("")
TimerFire(t) ==
    /\ t \in timers
    /\ t.left = 0
    /\ LET s == SetResult(timers \ {t}, Idle)
       IN  /\ result' = s.result
           /\ timers' = s.timers
           /\ age' = s.age
    /\ ev' = Event("timer", "", 0, DefaultValues)
    /\ UNCHANGED <<mounted, form, inflight, sent, consoleErr>>

\* the component unmounts: the effect's cleanup runs
Unmount ==
    /\ mounted
    /\ mounted' = FALSE
    /\ timers' = Cleanup(timers, result)
    /\ ev' = Event("unmount", "", 0, DefaultValues)
    /\ UNCHANGED <<result, form, inflight, sent, consoleErr, age>>

Next ==
    \/ \E f \in FieldNames : \E v \in FieldValues[f] : Edit(f, v)
    \/ HandleSubmit
    \/ \E i \in inflight : \E o \in Outcomes : Respond(i, o)
    \/ Tick
    \/ \E t \in timers : TimerFire(t)
    \/ Unmount

Spec == Init /\ [][Next]_vars

----------------------------------------------------------------------------
\* The claims

\* the constraints of a draft as the specification states them
NameShort(d) == Len(d.name) < 3
MessageShort(d) == Len(d.message) < 10
ViolatesConstraint(d) == NameShort(d) \/ ~IsEmail(d.email) \/ MessageShort(d)

EmptyFields == [name |-> <<>>, email |-> <<>>, message |-> <<>>]

\* C1: a submit attempt on a draft in which a field violates its constraint
\* is blocked: no request is issued, none is put in flight, and the status
\* stays as it was (onSubmit, which would set it, did not run).
C1_InvalidBlocked ==
    [][(ev'.type = "submit" /\ ViolatesConstraint(form))
          => (sent' = sent /\ inflight' = inflight /\ result' = result
              /\ timers' = timers /\ form' = form)]_vars

\* C1 witness: the draft {"Al", "a@b.co", "Hello ther"} was submitted and
\* nothing was sent.
C1_Witness ==
    /\ ev.type = "submit"
    /\ Len(form.name) = 2
    /\ IsEmail(form.email)
    /\ Len(form.message) >= 10
    /\ sent = <<>>
    /\ result = ""

\* C2: a submit of a valid draft issues exactly one request, carrying that
\* draft's name, email and message and the access credential; no other
\* step (a failed response included) issues a request, so the number of
\* requests issued is the number of valid submits.
C2_OneRequestPerSubmit ==
    [][IF ev'.type = "submit" /\ ~ViolatesConstraint(form)
       THEN sent' = Append(sent, [access_key |-> "NEXT_PUBLIC_WEB3FORMS_ACCESS_KEY",
                                  name |-> form.name,
                                  email |-> form.email,
                                  message |-> form.message])
       ELSE sent' = sent]_vars

\* C2 witness: two submissions of different drafts have been made, both
\* have been answered, the last one by a failure, and two requests exist.
C2_Witness ==
    /\ Len(sent) = 2
    /\ sent[1] # sent[2]
    /\ inflight = {}
    /\ ev.type = "respond"
    /\ ev.arg # "ok"

\* C3: when the response to a submission is a success, all three fields are
\* reset to empty strings and the status of the (mounted) component becomes
\* "Message sent successfully.".
C3_SuccessResets ==
    [][(ev'.type = "respond" /\ ev'.arg = "ok")
          => (form' = EmptyFields
              /\ (mounted => result' = "Message sent successfully."))]_vars

\* C3 witness: a success response has arrived while the fields held a draft.
C3_Witness ==
    /\ ev.type = "respond"
    /\ ev.arg = "ok"
    /\ ev.prev # EmptyFields
    /\ form = EmptyFields
    /\ mounted
    /\ result = "Message sent successfully."

\* C4: when a submission fails, by a transport error or by a response with
\* a non-ok status alike, the fields keep their values and the status of
\* the (mounted) component becomes "Failed to send message".
C4_FailureKeeps ==
    [][(ev'.type = "respond" /\ ev'.arg \in {"nonok", "neterr"})
          => (form' = form
              /\ (mounted => result' = "Failed to send message"))]_vars

\* C4 witness: a non-ok response has arrived and the draft is still there.
C4_Witness ==
    /\ ev.type = "respond"
    /\ ev.arg = "nonok"
    /\ form = ev.prev
    /\ form # EmptyFields
    /\ mounted
    /\ result = "Failed to send message"

\* C5: while the component is mounted, exactly the timer started by the
\* last status change is pending when a status shows and none when the
\* status is empty (timers do not stack), it is due 3 seconds after that
\* change, and a timer clears the status only when the status has been
\* showing for 3 seconds.
C5_OneTimer ==
    /\ [](mounted =>
            /\ Cardinality(timers) <= 1
            /\ result = "" => timers = {}
            /\ result # "" => timers = {[for |-> result, left |-> 3 - age]})
    /\ [][ev'.type = "timer" => (age = 3 /\ result' = "")]_vars

\* C5 witness: a timer has cleared a status that replaced an earlier one
\* (a response was received, so the status changed after "Sending ...").
C5_Witness ==
    /\ ev.type = "timer"
    /\ result = ""
    /\ inflight = {}
    /\ Len(sent) = 1
    /\ mounted

\* C6: a request is issued only by a submit step, and that step leaves the
\* status of the component at "Sending ...": the status is set and the
\* fetch started in one step of onSubmit, no event between the two.
C6_SendingBeforeRequest ==
    [][sent' # sent
          => (ev'.type = "submit"
              /\ result' = "Sending ..."
              /\ inflight' = inflight \cup {Len(sent')})]_vars

\* C6 witness: a request has just been issued and put in flight, and the
\* status reads "Sending ...".
C6_Witness ==
    /\ ev.type = "submit"
    /\ result = "Sending ..."
    /\ age = 0
    /\ Len(sent) \in inflight

\* C7: the status follows idle -> sending -> shown -> idle: it leaves
\* sending only by a response, success and failure are entered only from
\* sending, and idle is entered only from success or failure by the timer.
C7_StateMachine ==
    [][/\ (result = "Sending ..." /\ result' # result) => ev'.type = "respond"
       /\ (result' \in {"Message sent successfully.", "Failed to send message"}
             /\ result' # result) => result = "Sending ..."
       /\ (result' = "" /\ result' # result)
             => (ev'.type = "timer"
                 /\ result \in {"Message sent successfully.",
                                "Failed to send message"})]_vars

\* C8: after the unmount no timer is pending and no later event changes
\* the status or the fields.
C8_NothingAfterUnmount ==
    /\ [](~mounted => timers = {})
    /\ [][~mounted => (result' = result /\ form' = form)]_vars

\* C9: a valid draft can be submitted while a request is in flight; the
\* submit puts a further request in flight, and a request leaves the set
\* of requests in flight only by its own response.
C9_DoubleSubmit ==
    /\ []((mounted /\ inflight # {} /\ ~ViolatesConstraint(form)
             /\ Len(sent) < MaxSubmits) => ENABLED HandleSubmit)
    /\ [][(ev'.type = "submit" /\ ~ViolatesConstraint(form))
             => (inflight' = inflight \cup {Len(sent) + 1}
                 /\ Len(sent) + 1 \notin inflight)]_vars
    /\ [][\A i \in inflight :
             i \notin inflight' => (ev'.type = "respond" /\ ev'.id = i)]_vars

\* C9 witness: two requests are in flight at once.
C9_Witness == Cardinality(inflight) >= 2

\* C10: a response acts on the state it finds: a success leaves the fields
\* empty whatever they held when it arrived, a failure leaves them as it
\* found them, and the status of the mounted component after a response is
\* that of this response, whichever submission it answers.
C10_CurrentState ==
    ev.type = "respond" =>
        /\ ev.arg = "ok" => form = EmptyFields
        /\ ev.arg # "ok" => form = ev.prev
        /\ mounted => result = (IF ev.arg = "ok"
                                THEN "Message sent successfully."
                                ELSE "Failed to send message")

\* C10 witness: two requests were in flight together; the second was
\* answered first, by a failure; the first was then answered by a success
\* after the user had changed the name it carried, and the edit is gone.
C10_Witness ==
    /\ ev.type = "respond"
    /\ ev.arg = "ok"
    /\ ev.id = 1
    /\ Len(sent) = 2
    /\ inflight = {}
    /\ consoleErr = 1
    /\ ev.prev.name # sent[1].name
    /\ form = EmptyFields
    /\ mounted
    /\ result = "Message sent successfully."

====
